---- MODULE Spec2Model ----
(***************************************************************************)
(* A model of src/main.py: a Streamlit dashboard script that loads the     *)
(* per-school environment tables (csv files) and the growth workbook      *)
(* (an xlsx file)                                                          *)
(* from the directory "data", halts when a load result is missing, and     *)
(* then renders three tab sections.                                        *)
(*                                                                         *)
(* Strings that take part in Unicode normalization (file names, group      *)
(* labels) are sequences of Unicode code points.  Column names are plain   *)
(* strings, written in ASCII:                                              *)
(*   "weight" is the column U+C0DD U+C911 U+B7C9 "(g)"      (fresh weight) *)
(*   "leaves" is the column U+C78E " " U+C218 "(" U+C7A5 ")" (leaf count)  *)
(*   "shoot"  is the column U+C9C0 U+C0C1 U+BD80 " " U+AE38 U+C774 "(mm)"  *)
(***************************************************************************)
EXTENDS Integers, Sequences, FiniteSets, TLC

VARIABLES
    dirExists,      \* whether the directory "data" exists
    listing,        \* its entries, in the order iterdir() enumerates them
    changes,        \* times the directory was changed from outside
    envCache,       \* st.cache_data store of load_environment_data
    growthCache,    \* st.cache_data store of load_growth_data
    envReads,       \* times the body of load_environment_data ran
    growthReads,    \* times the body of load_growth_data ran
    pc,             \* position of the script run
    fresh,          \* per loader whose body ran in this run, what iterdir gave
    env_data,       \* line 75
    growth_data,    \* line 76
    widget,         \* the selectbox value kept by the session
    selected_school,\* line 104
    notice,         \* st.error was called (line 79)
    fault,          \* the uncaught exception that ended the run
    rendered,       \* tab sections whose with-block ran to its end
    tab1_out,       \* values computed by the tab 1 block
    tab2_out,       \* values computed by the tab 2 block
    tab3_out,       \* values computed by the tab 3 block
    target_name,    \* argument of find_file
    found           \* result of find_file

vars == <<dirExists, listing, changes, envCache, growthCache, envReads, growthReads,
          pc, fresh, env_data, growth_data, widget, selected_school, notice,
          fault, rendered, tab1_out, tab2_out, tab3_out, target_name, found>>

fsVars == <<dirExists, listing, changes>>
cacheVars == <<envCache, growthCache, envReads, growthReads>>
findVars == <<target_name, found>>
tabVars == <<tab1_out, tab2_out, tab3_out>>

-----------------------------------------------------------------------------
(* Bounds of the model *)

MaxFiles == 2
MaxReads == 2
MaxChanges == 1

-----------------------------------------------------------------------------
(* Unicode normalization of Hangul (unicodedata.normalize), Unicode        *)
(* Standard section 3.12: conjoining jamo behaviour.  Every other code     *)
(* point used here (ASCII) is its own normal form.                         *)

SBase == 44032
LBase == 4352
VBase == 4449
TBase == 4519
LCount == 19
VCount == 21
TCount == 28
NCount == VCount * TCount
SCount == LCount * NCount

IsSyllable(c) == c >= SBase /\ c < SBase + SCount
IsL(c) == c >= LBase /\ c < LBase + LCount
IsV(c) == c >= VBase /\ c < VBase + VCount
IsT(c) == c > TBase /\ c < TBase + TCount
IsLV(c) == IsSyllable(c) /\ (c - SBase) % TCount = 0

DecomposeChar(c) ==
    IF IsSyllable(c)
    THEN LET si == c - SBase
             l == LBase + (si \div NCount)
             v == VBase + ((si % NCount) \div TCount)
             t == TBase + (si % TCount)
         IN IF t = TBase THEN <<l, v>> ELSE <<l, v, t>>
    ELSE <<c>>

RECURSIVE NFD(_)
NFD(s) == IF s = <<>> THEN <<>> ELSE DecomposeChar(Head(s)) \o NFD(Tail(s))

RECURSIVE ComposeInto(_, _)
ComposeInto(acc, s) ==
    IF s = <<>> THEN acc
    ELSE LET c == Head(s)
             n == Len(acc)
             last == IF n = 0 THEN 0 ELSE acc[n]
         IN IF n > 0 /\ IsL(last) /\ IsV(c)
            THEN ComposeInto(
                   [acc EXCEPT ![n] = SBase + ((last - LBase) * VCount + (c - VBase)) * TCount],
                   Tail(s))
            ELSE IF n > 0 /\ IsLV(last) /\ IsT(c)
            THEN ComposeInto([acc EXCEPT ![n] = last + (c - TBase)], Tail(s))
            ELSE ComposeInto(Append(acc, c), Tail(s))

NFC(s) == ComposeInto(<<>>, NFD(s))

\* normalize_name with the normalization left out
normalize_name_raw(name) == name

\* lines 30-31
normalize_name(name) == NFC(name)

-----------------------------------------------------------------------------
(* str and pathlib helpers *)

StartsWith(s, pre) == Len(s) >= Len(pre) /\ SubSeq(s, 1, Len(pre)) = pre

\* str.replace(old, ""): every non-overlapping occurrence, left to right
RECURSIVE Remove(_, _)
Remove(s, old) ==
    IF Len(s) < Len(old) THEN s
    ELSE IF StartsWith(s, old) THEN Remove(SubSeq(s, Len(old) + 1, Len(s)), old)
    ELSE <<Head(s)>> \o Remove(Tail(s), old)

Dot == 46

\* position of the last "." of a name, 0 when there is none (str.rfind + 1)
LastDot(name) ==
    LET ds == {i \in 1..Len(name) : name[i] = Dot}
    IN IF ds = {} THEN 0 ELSE CHOOSE i \in ds : \A j \in ds : j <= i

\* PurePath.suffix: the last dot and what follows it, unless the name starts
\* or ends with that dot
Suffix(name) ==
    LET i == LastDot(name)
    IN IF 1 < i /\ i < Len(name) THEN SubSeq(name, i, Len(name)) ELSE <<>>

\* PurePath.stem
Stem(name) ==
    LET i == LastDot(name)
    IN IF 1 < i /\ i < Len(name) THEN SubSeq(name, 1, i - 1) ELSE name

CsvSuffix == <<46, 99, 115, 118>>
XlsxSuffix == <<46, 120, 108, 115, 120>>
TxtSuffix == <<46, 116, 120, 116>>
\* "_" U+D658 U+ACBD U+B370 U+C774 U+D130
EnvSuffix == <<95, 54872, 44221, 45936, 51060, 53552>>

\* school names (keys of EC_INFO) and the selectbox's first option
Songdo == <<49569, 46020, 44256>>
Haneul == <<54616, 45720, 44256>>
Ara == <<50500, 46972, 44256>>
Dongsan == <<46041, 49328, 44256>>
AllSchools == <<51204, 52404>>

-----------------------------------------------------------------------------
(* Python dict: a sequence of <<key, value>> pairs in insertion order *)

DictKeys(d) == [i \in 1..Len(d) |-> d[i][1]]
DictValues(d) == [i \in 1..Len(d) |-> d[i][2]]
KeySet(d) == {d[i][1] : i \in 1..Len(d)}
Has(d, k) == k \in KeySet(d)
Get(d, k) == d[CHOOSE i \in 1..Len(d) : d[i][1] = k][2]
\* d[k] = v: a present key keeps its place and takes the new value
DictSet(d, k, v) ==
    IF Has(d, k)
    THEN [i \in 1..Len(d) |-> IF d[i][1] = k THEN <<k, v>> ELSE d[i]]
    ELSE Append(d, <<k, v>>)

EC_INFO == << <<Songdo, 1>>, <<Haneul, 2>>, <<Ara, 4>>, <<Dongsan, 8>> >>

-----------------------------------------------------------------------------
(* pandas: a DataFrame is its column names, its row count and, per column, *)
(* the cells of that column; a cell is <<v>> or <<>> (a missing value).    *)
(* Numbers are the integers the sample tables hold; a mean is the          *)
(* fraction num/den, or NaN.                                               *)

Table(cols, n, data) == [columns |-> cols, n |-> n, data |-> data]

NaN == [nan |-> TRUE, num |-> 0, den |-> 1]

RECURSIVE SumCells(_)
SumCells(cells) ==
    IF cells = <<>> THEN 0
    ELSE (IF Head(cells) = <<>> THEN 0 ELSE Head(cells)[1]) + SumCells(Tail(cells))

CountCells(cells) == Cardinality({i \in 1..Len(cells) : cells[i] # <<>>})

\* Series.mean(): missing values are skipped; no value left gives NaN
Mean(cells) ==
    IF CountCells(cells) = 0 THEN NaN
    ELSE [nan |-> FALSE, num |-> SumCells(cells), den |-> CountCells(cells)]

\* float comparison a > b: False whenever either side is NaN
Gt(a, b) == ~a.nan /\ ~b.nan /\ a.num * b.den > b.num * a.den

HasColumn(df, c) == c \in df.columns

RECURSIVE ConcatCells(_, _)
\* pd.concat(tables)[c]: a table without the column contributes missing cells
ConcatCells(tables, c) ==
    IF tables = <<>> THEN <<>>
    ELSE LET df == Head(tables)
         IN (IF HasColumn(df, c) THEN df.data[c] ELSE [i \in 1..df.n |-> <<>>])
            \o ConcatCells(Tail(tables), c)

ConcatHasColumn(tables, c) == \E i \in 1..Len(tables) : HasColumn(tables[i], c)

RECURSIVE SumLen(_)
SumLen(tables) == IF tables = <<>> THEN 0 ELSE Head(tables).n + SumLen(Tail(tables))

RECURSIVE MaxFrom(_, _, _)
\* the loop of the builtin max(keys, key=means.get): a later key replaces the
\* best one only when its value compares greater
MaxFrom(best, keys, means) ==
    IF keys = <<>> THEN best
    ELSE MaxFrom(IF Gt(Get(means, Head(keys)), Get(means, best)) THEN Head(keys) ELSE best,
                 Tail(keys), means)

PyMax(means) == MaxFrom(DictKeys(means)[1], Tail(DictKeys(means)), means)

\* Series.idxmax(): the first position of the greatest value, missing values
\* skipped; 0 when every value is missing
IdxMax(values) ==
    LET ok == {i \in 1..Len(values) : ~values[i].nan}
    IN IF ok = {} THEN 0
       ELSE CHOOSE i \in ok :
              /\ \A j \in ok : ~Gt(values[j], values[i])
              /\ \A j \in ok : j < i => Gt(values[i], values[j])

-----------------------------------------------------------------------------
(* Sample tables *)

EnvColumns == {"time", "temperature", "humidity", "ph", "ec"}
GrowthColumns == {"weight", "leaves", "shoot"}

EnvA ==
    Table(EnvColumns, 2,
          [c \in EnvColumns |->
             CASE c = "time" -> << <<1>>, <<2>> >>
               [] c = "temperature" -> << <<20>>, <<22>> >>
               [] c = "humidity" -> << <<60>>, <<65>> >>
               [] c = "ph" -> << <<6>>, <<7>> >>
               [] c = "ec" -> << <<1>>, <<1>> >>])

EnvNoPh ==
    Table(EnvColumns \ {"ph"}, 1,
          [c \in EnvColumns \ {"ph"} |->
             CASE c = "time" -> << <<1>> >>
               [] c = "temperature" -> << <<18>> >>
               [] c = "humidity" -> << <<50>> >>
               [] c = "ec" -> << <<2>> >>])

EnvB ==
    Table(EnvColumns, 1,
          [c \in EnvColumns |->
             CASE c = "time" -> << <<1>> >>
               [] c = "temperature" -> << <<19>> >>
               [] c = "humidity" -> << <<70>> >>
               [] c = "ph" -> << <<5>> >>
               [] c = "ec" -> << <<4>> >>])

Growth(ws, ls, ss) ==
    Table(GrowthColumns, Len(ws),
          [c \in GrowthColumns |->
             CASE c = "weight" -> ws [] c = "leaves" -> ls [] c = "shoot" -> ss])

GrowthLow == Growth(<< <<1>>, <<2>> >>, << <<4>>, <<5>> >>, << <<30>>, <<40>> >>)
GrowthHigh == Growth(<< <<3>>, <<5>> >>, << <<6>>, <<>> >>, << <<50>>, <<60>> >>)
GrowthNoRows == Growth(<<>>, <<>>, <<>>)
GrowthNoValue == Growth(<< <<>> >>, << <<4>> >>, << <<30>> >>)
GrowthNoLeaves ==
    Table({"weight", "shoot"}, 1,
          [c \in {"weight", "shoot"} |->
             CASE c = "weight" -> << <<2>> >> [] c = "shoot" -> << <<35>> >>])
GrowthNoWeight ==
    Table({"leaves", "shoot"}, 1,
          [c \in {"leaves", "shoot"} |->
             CASE c = "leaves" -> << <<4>> >> [] c = "shoot" -> << <<35>> >>])

NoTable == Table({}, 0, <<>>)

-----------------------------------------------------------------------------
(* Directory entries: a name, and what pandas reads from the file: the     *)
(* table of a csv file, the named sheets (in workbook order) of an xlsx.   *)

CsvFile(name, df) == [name |-> name, table |-> df, sheets |-> <<>>]
XlsxFile(name, sheets) == [name |-> name, table |-> NoTable, sheets |-> sheets]

SongdoCsvName == Songdo \o EnvSuffix \o CsvSuffix

CsvComposed == CsvFile(SongdoCsvName, EnvA)
CsvDecomposed == CsvFile(NFD(SongdoCsvName), EnvNoPh)
CsvBare == CsvFile(Songdo \o CsvSuffix, EnvB)

BookGood == XlsxFile(<<97>> \o XlsxSuffix, << <<Songdo, GrowthLow>>, <<Haneul, GrowthHigh>> >>)
BookEmptyGroup == XlsxFile(<<98>> \o XlsxSuffix, << <<Songdo, GrowthNoValue>>, <<Haneul, GrowthHigh>> >>)
BookNoSheets == XlsxFile(<<99>> \o XlsxSuffix, <<>>)
BookUnknownGroup == XlsxFile(<<100>> \o XlsxSuffix, << <<Haneul, GrowthHigh>>, <<NFD(Songdo), GrowthLow>> >>)
BookNoLeaves == XlsxFile(<<101>> \o XlsxSuffix, << <<Songdo, GrowthNoLeaves>> >>)
BookNoWeight == XlsxFile(<<102>> \o XlsxSuffix, << <<Songdo, GrowthNoWeight>> >>)
BookAllEmpty == XlsxFile(<<103>> \o XlsxSuffix, << <<Songdo, GrowthNoRows>> >>)

Pool == {CsvComposed, CsvDecomposed, CsvBare, BookGood, BookEmptyGroup,
         BookNoSheets, BookUnknownGroup, BookNoLeaves, BookNoWeight, BookAllEmpty}

\* the orders in which a directory of at most MaxFiles entries is enumerated
RECURSIVE ListingsOf(_)
ListingsOf(n) ==
    IF n = 0 THEN {<<>>}
    ELSE LET shorter == ListingsOf(n - 1)
         IN shorter \cup
            {Append(l, f) : <<l, f>> \in
               {<<l, f>> \in shorter \X Pool : \A i \in 1..Len(l) : l[i] # f}}

Listings == ListingsOf(MaxFiles)

-----------------------------------------------------------------------------
(* Values of Python's dynamic types *)

None == [kind |-> "None"]
Unset == [kind |-> "unset"]
Dict(items) == [kind |-> "dict", items |-> items]
Path(p) == [kind |-> "path", entry |-> p]
IsDict(v) == v.kind = "dict"

-----------------------------------------------------------------------------
(* find_file, lines 33-38 *)

RECURSIVE FirstMatch(_, _)
FirstMatch(entries, target_nfc) ==
    IF entries = <<>> THEN None
    ELSE IF normalize_name(Head(entries).name) = target_nfc THEN Path(Head(entries))
    ELSE FirstMatch(Tail(entries), target_nfc)

find_file(data_dir, target) == FirstMatch(data_dir, normalize_name(target))

-----------------------------------------------------------------------------
(* The loader bodies, lines 44-51 and 54-69, on the entries iterdir gave *)

RECURSIVE EnvLoop(_, _)
EnvLoop(entries, school_files) ==
    IF entries = <<>> THEN school_files
    ELSE LET p == Head(entries)
         IN EnvLoop(Tail(entries),
                    IF Suffix(p.name) = CsvSuffix
                    THEN DictSet(school_files, Remove(Stem(p.name), EnvSuffix), p.table)
                    ELSE school_files)

load_environment_data(entries) == Dict(EnvLoop(entries, <<>>))

RECURSIVE FirstXlsx(_)
FirstXlsx(entries) ==
    IF entries = <<>> THEN None
    ELSE IF Suffix(Head(entries).name) = XlsxSuffix THEN Path(Head(entries))
    ELSE FirstXlsx(Tail(entries))

\* load_growth_data with an empty dict returned where the code returns None
load_growth_data_empty(entries) ==
    LET xlsx_file == FirstXlsx(entries)
    IN IF xlsx_file = None THEN Dict(<<>>) ELSE Dict(xlsx_file.entry.sheets)

load_growth_data(entries) ==
    LET xlsx_file == FirstXlsx(entries)
    IN IF xlsx_file = None THEN None ELSE Dict(xlsx_file.entry.sheets)

-----------------------------------------------------------------------------
(* The tab sections.  Each operator gives the exception the with-block     *)
(* raises first, in statement order, with the line that raises it.         *)

NoFault == [type |-> "none", line |-> 0]
Raise(type, line) == [type |-> type, line |-> line]
NoOut == [done |-> FALSE]

\* the first of the candidate faults, in statement order, that is raised
RECURSIVE FirstFault(_)
FirstFault(fs) ==
    IF fs = <<>> THEN NoFault
    ELSE IF Head(fs).type # "none" THEN Head(fs) ELSE FirstFault(Tail(fs))

\* df[c] for every table of a dict, in dict order
MissingColumn(d, c, line) ==
    IF \E i \in 1..Len(d) : ~HasColumn(d[i][2], c) THEN Raise("KeyError", line) ELSE NoFault

\* lines 141-144
mean_weights(growth) ==
    [i \in 1..Len(growth) |-> <<growth[i][1], Mean(growth[i][2].data["weight"])>>]

\* lines 126-146
Tab1Fault(env, growth) ==
    FirstFault(<<
        IF ~ConcatHasColumn(DictValues(env), "temperature") THEN Raise("KeyError", 138) ELSE NoFault,
        IF ~ConcatHasColumn(DictValues(env), "humidity") THEN Raise("KeyError", 139) ELSE NoFault,
        MissingColumn(growth, "weight", 142),
        IF growth = <<>> THEN Raise("ValueError", 145) ELSE NoFault,
        IF growth # <<>> /\ \A i \in 1..Len(growth) : HasColumn(growth[i][2], "weight")
        THEN (IF Has(EC_INFO, PyMax(mean_weights(growth))) THEN NoFault ELSE Raise("KeyError", 146))
        ELSE NoFault >>)

\* lines 126-152, when nothing is raised
Tab1Values(env, growth) ==
    LET best_school == PyMax(mean_weights(growth))
    IN [done |-> TRUE,
        overview_rows |->
            [i \in 1..Len(EC_INFO) |->
               [school |-> EC_INFO[i][1], ec |-> EC_INFO[i][2],
                count |-> IF Has(growth, EC_INFO[i][1]) THEN Get(growth, EC_INFO[i][1]).n ELSE 0]],
        total_plants |-> SumLen(DictValues(growth)),
        avg_temp |-> Mean(ConcatCells(DictValues(env), "temperature")),
        avg_hum |-> Mean(ConcatCells(DictValues(env), "humidity")),
        mean_weights |-> mean_weights(growth),
        best_school |-> best_school,
        best_ec |-> Get(EC_INFO, best_school)]

\* the first table of a dict, in dict order, that lacks one of the columns
\* read in a row of the loop; the columns are read in the order given
RECURSIVE RowFault(_, _, _)
RowFault(d, cols, line) ==
    IF d = <<>> THEN NoFault
    ELSE LET miss == {j \in 1..Len(cols) : ~HasColumn(Head(d)[2], cols[j])}
         IN IF miss # {}
            THEN Raise("KeyError", line + (CHOOSE j \in miss : \A k \in miss : j <= k) - 1)
            ELSE RowFault(Tail(d), cols, line)

\* lines 160-201
Tab2Fault(env, selected) ==
    FirstFault(<<
        RowFault(env, <<"temperature", "humidity", "ph", "ec">>, 164),
        IF selected # AllSchools /\ Has(env, selected)
           /\ ~({"time", "temperature", "humidity", "ec"} \subseteq Get(env, selected).columns)
        THEN Raise("ValueError", 191) ELSE NoFault,
        IF selected # AllSchools /\ ~Has(EC_INFO, selected)
        THEN Raise("KeyError", 198) ELSE NoFault >>)

\* EC_INFO.get(school): <<v>>, or <<>> for None
EcGet(school) == IF Has(EC_INFO, school) THEN <<Get(EC_INFO, school)>> ELSE <<>>

\* lines 160-222, when nothing is raised
Tab2Values(env, selected) ==
    [done |-> TRUE,
     avg_df |->
        [i \in 1..Len(env) |->
           [school |-> env[i][1],
            temperature |-> Mean(env[i][2].data["temperature"]),
            humidity |-> Mean(env[i][2].data["humidity"]),
            ph |-> Mean(env[i][2].data["ph"]),
            ec |-> Mean(env[i][2].data["ec"]),
            target_ec |-> EcGet(env[i][1])]],
     hline |-> IF selected # AllSchools THEN <<Get(EC_INFO, selected)>> ELSE <<>>]

\* lines 230-237: per sheet, EC_INFO[school] is evaluated before df[weight]
RECURSIVE WeightFault(_)
WeightFault(growth) ==
    IF growth = <<>> THEN NoFault
    ELSE IF ~Has(EC_INFO, Head(growth)[1]) THEN Raise("KeyError", 233)
    ELSE IF ~HasColumn(Head(growth)[2], "weight") THEN Raise("KeyError", 234)
    ELSE WeightFault(Tail(growth))

\* lines 230-237
weight_df(growth) ==
    [i \in 1..Len(growth) |->
       [school |-> growth[i][1], ec |-> Get(EC_INFO, growth[i][1]),
        mean_weight |-> Mean(growth[i][2].data["weight"])]]

\* line 239: with no sheet, or no defined mean, idxmax and .loc cannot give a
\* row; which exception is raised depends on the pandas release
Tab3IdxFaults(growth) ==
    IF WeightFault(growth).type = "none"
       /\ IdxMax([i \in 1..Len(growth) |-> weight_df(growth)[i].mean_weight]) = 0
    THEN {Raise("KeyError", 239), Raise("ValueError", 239)}
    ELSE {NoFault}

\* lines 230-262; idx is the outcome of line 239
Tab3Fault(growth, idx) ==
    FirstFault(<<
        WeightFault(growth),
        idx,
        MissingColumn(growth, "leaves", 257),
        MissingColumn(growth, "shoot", 262) >>)

\* lines 230-311, when nothing is raised
Tab3Values(growth) ==
    LET w == weight_df(growth)
    IN [done |-> TRUE,
        weight_df |-> w,
        best_row |-> w[IdxMax([i \in 1..Len(w) |-> w[i].mean_weight])]]

-----------------------------------------------------------------------------
(* The session: script runs of one Streamlit process *)

Terminal == {"done", "stopped", "fault"}

RunInit ==
    /\ pc = "load_env"
    /\ fresh = {}
    /\ env_data = Unset
    /\ growth_data = Unset
    /\ selected_school = Unset
    /\ notice = FALSE
    /\ fault = NoFault
    /\ rendered = {}
    /\ tab1_out = NoOut
    /\ tab2_out = NoOut
    /\ tab3_out = NoOut

Init ==
    /\ dirExists \in BOOLEAN
    /\ listing \in Listings
    /\ (~dirExists => listing = <<>>)
    /\ changes = 0
    /\ envCache = Unset
    /\ growthCache = Unset
    /\ envReads = 0
    /\ growthReads = 0
    /\ widget = AllSchools
    /\ target_name = <<>>
    /\ found = Unset
    /\ RunInit

\* what a loader's data_dir.iterdir() gave in this run
Listed(l) == [exists |-> TRUE, entries |-> l]
Missing == [exists |-> FALSE, entries |-> <<>>]
Ran(loader) == \E p \in fresh : p[1] = loader
Seen(loader) == (CHOOSE p \in fresh : p[1] = loader)[2]

\* the file of a listed entry is still in the directory
Exists(p) == dirExists /\ \E i \in 1..Len(listing) : listing[i] = p

\* line 75: load_environment_data() behind @st.cache_data (line 43), up to
\* the listing of the directory (line 47).  A stored value is returned
\* without running the body; a body that raises stores nothing.
LoadEnvironment ==
    /\ pc = "load_env"
    /\ IF envCache # Unset
       THEN /\ env_data' = envCache
            /\ pc' = "load_growth"
            /\ UNCHANGED <<envReads, fresh, fault>>
       ELSE IF ~dirExists
       THEN /\ fault' = Raise("FileNotFoundError", 47)
            /\ pc' = "fault"
            /\ envReads' = envReads + 1
            /\ fresh' = fresh \cup {<<"env", Missing>>}
            /\ UNCHANGED env_data
       ELSE /\ envReads' = envReads + 1
            /\ fresh' = fresh \cup {<<"env", Listed(listing)>>}
            /\ pc' = "read_csv"
            /\ UNCHANGED <<env_data, fault>>
    /\ UNCHANGED <<fsVars, envCache, growthCache, growthReads, growth_data, widget,
                   selected_school, notice, rendered, tabVars, findVars>>

\* lines 47-51: the csv files of the listing are read (pd.read_csv, line 50)
\* and the mapping is returned and stored; a listed csv file that is gone
\* raises
ReadCsv ==
    /\ pc = "read_csv"
    /\ LET entries == Seen("env").entries
       IN IF \E i \in 1..Len(entries) :
                Suffix(entries[i].name) = CsvSuffix /\ ~Exists(entries[i])
          THEN /\ fault' = Raise("FileNotFoundError", 50)
               /\ pc' = "fault"
               /\ UNCHANGED <<env_data, envCache>>
          ELSE /\ env_data' = load_environment_data(entries)
               /\ envCache' = load_environment_data(entries)
               /\ pc' = "load_growth"
               /\ UNCHANGED fault
    /\ UNCHANGED <<fsVars, envReads, fresh, growthCache, growthReads, growth_data,
                   widget, selected_school, notice, rendered, tabVars, findVars>>

\* line 76: load_growth_data() behind @st.cache_data (line 53), up to the
\* choice of the workbook (lines 57-63)
LoadGrowth ==
    /\ pc = "load_growth"
    /\ IF growthCache # Unset
       THEN /\ growth_data' = growthCache
            /\ pc' = "check"
            /\ UNCHANGED <<growthCache, growthReads, fresh, fault>>
       ELSE IF ~dirExists
       THEN /\ fault' = Raise("FileNotFoundError", 57)
            /\ pc' = "fault"
            /\ growthReads' = growthReads + 1
            /\ fresh' = fresh \cup {<<"growth", Missing>>}
            /\ UNCHANGED <<growthCache, growth_data>>
       ELSE IF FirstXlsx(listing) = None
       THEN /\ growth_data' = load_growth_data(listing)
            /\ growthCache' = load_growth_data(listing)
            /\ growthReads' = growthReads + 1
            /\ fresh' = fresh \cup {<<"growth", Listed(listing)>>}
            /\ pc' = "check"
            /\ UNCHANGED fault
       ELSE /\ growthReads' = growthReads + 1
            /\ fresh' = fresh \cup {<<"growth", Listed(listing)>>}
            /\ pc' = "open_xlsx"
            /\ UNCHANGED <<growthCache, growth_data, fault>>
    /\ UNCHANGED <<fsVars, envCache, envReads, env_data, widget,
                   selected_school, notice, rendered, tabVars, findVars>>

\* lines 65-69: the workbook is opened (pd.ExcelFile, line 65) and its sheets
\* are returned and stored; a workbook that is gone raises
OpenXlsx ==
    /\ pc = "open_xlsx"
    /\ LET entries == Seen("growth").entries
       IN IF ~Exists(FirstXlsx(entries).entry)
          THEN /\ fault' = Raise("FileNotFoundError", 65)
               /\ pc' = "fault"
               /\ UNCHANGED <<growth_data, growthCache>>
          ELSE /\ growth_data' = load_growth_data(entries)
               /\ growthCache' = load_growth_data(entries)
               /\ pc' = "check"
               /\ UNCHANGED fault
    /\ UNCHANGED <<fsVars, envCache, envReads, growthReads, fresh, env_data,
                   widget, selected_school, notice, rendered, tabVars, findVars>>

\* line 78: not env_data or growth_data is None
LoadFailed(env, growth) == env.items = <<>> \/ growth = None

\* lines 78-80
CheckLoaded ==
    /\ pc = "check"
    /\ IF LoadFailed(env_data, growth_data)
       THEN notice' = TRUE /\ pc' = "stopped"
       ELSE notice' = notice /\ pc' = "sidebar"
    /\ UNCHANGED <<fsVars, cacheVars, fresh, env_data, growth_data, widget,
                   selected_school, fault, rendered, tabVars, findVars>>

\* lines 99-107: the options of the selectbox
Options(env) == <<AllSchools>> \o DictKeys(env.items)

\* lines 99-114: the selectbox gives the session's choice when it is one of
\* the options, and the first option otherwise
Sidebar ==
    /\ pc = "sidebar"
    /\ selected_school' =
          IF \E i \in 1..Len(Options(env_data)) : Options(env_data)[i] = widget
          THEN widget ELSE Options(env_data)[1]
    /\ pc' = "tab1"
    /\ UNCHANGED <<fsVars, cacheVars, fresh, env_data, growth_data, widget,
                   notice, fault, rendered, tabVars, findVars>>

\* lines 119-152
Tab1 ==
    /\ pc = "tab1"
    /\ LET f == Tab1Fault(env_data.items, growth_data.items)
       IN IF f.type # "none"
          THEN /\ fault' = f
               /\ pc' = "fault"
               /\ UNCHANGED <<rendered, tab1_out>>
          ELSE /\ tab1_out' = Tab1Values(env_data.items, growth_data.items)
               /\ rendered' = rendered \cup {1}
               /\ pc' = "tab2"
               /\ UNCHANGED fault
    /\ UNCHANGED <<fsVars, cacheVars, fresh, env_data, growth_data, widget,
                   selected_school, notice, tab2_out, tab3_out, findVars>>

\* lines 157-222
Tab2 ==
    /\ pc = "tab2"
    /\ LET f == Tab2Fault(env_data.items, selected_school)
       IN IF f.type # "none"
          THEN /\ fault' = f
               /\ pc' = "fault"
               /\ UNCHANGED <<rendered, tab2_out>>
          ELSE /\ tab2_out' = Tab2Values(env_data.items, selected_school)
               /\ rendered' = rendered \cup {2}
               /\ pc' = "tab3"
               /\ UNCHANGED fault
    /\ UNCHANGED <<fsVars, cacheVars, fresh, env_data, growth_data, widget,
                   selected_school, notice, tab1_out, tab3_out, findVars>>

\* lines 227-311
Tab3 ==
    /\ pc = "tab3"
    /\ \E idx \in Tab3IdxFaults(growth_data.items) :
         LET f == Tab3Fault(growth_data.items, idx)
         IN IF f.type # "none"
            THEN /\ fault' = f
                 /\ pc' = "fault"
                 /\ UNCHANGED <<rendered, tab3_out>>
            ELSE /\ tab3_out' = Tab3Values(growth_data.items)
                 /\ rendered' = rendered \cup {3}
                 /\ pc' = "done"
                 /\ UNCHANGED fault
    /\ UNCHANGED <<fsVars, cacheVars, fresh, env_data, growth_data, widget,
                   selected_school, notice, tab1_out, tab2_out, findVars>>

\* what the user can choose in the selectbox the last run displayed
Choices == IF selected_school = Unset THEN {widget}
           ELSE {Options(env_data)[i] : i \in 1..Len(Options(env_data))}

\* A new script run of the same process (a widget interaction or a browser
\* reload); the stores of st.cache_data are kept.
Rerun ==
    /\ pc \in Terminal
    /\ envCache # Unset \/ envReads < MaxReads
    /\ growthCache # Unset \/ growthReads < MaxReads
    /\ \E choice \in Choices : widget' = choice
    /\ pc' = "load_env"
    /\ fresh' = {}
    /\ env_data' = Unset
    /\ growth_data' = Unset
    /\ selected_school' = Unset
    /\ notice' = FALSE
    /\ fault' = NoFault
    /\ rendered' = {}
    /\ tab1_out' = NoOut
    /\ tab2_out' = NoOut
    /\ tab3_out' = NoOut
    /\ UNCHANGED <<fsVars, cacheVars, findVars>>

\* l with f put at place i
InsertAt(l, i, f) ==
    [j \in 1..(Len(l) + 1) |-> IF j < i THEN l[j] ELSE IF j = i THEN f ELSE l[j - 1]]

\* The directory "data" is changed from outside, at any point of a run or
\* between runs: it is removed with its contents, created empty, or gains
\* or loses one file.  A new file is enumerated at whatever place the file
\* system gives it.
FsOutcomes ==
    IF ~dirExists THEN {<<TRUE, <<>> >>}
    ELSE {<<FALSE, <<>> >>}
         \cup {<<TRUE, InsertAt(listing, o[2], o[1])>> : o \in
                 {g \in Pool : Len(listing) < MaxFiles
                               /\ \A i \in 1..Len(listing) : listing[i] # g}
                 \X (1..(Len(listing) + 1))}
         \cup {<<TRUE, [j \in 1..(Len(listing) - 1) |->
                          IF j < i THEN listing[j] ELSE listing[j + 1]]>> :
                 i \in 1..Len(listing)}

FsChange ==
    /\ changes < MaxChanges
    /\ changes' = changes + 1
    /\ \E o \in FsOutcomes :
          /\ dirExists' = o[1]
          /\ listing' = o[2]
    /\ UNCHANGED <<cacheVars, pc, fresh, env_data, growth_data, widget,
                   selected_school, notice, fault, rendered, tabVars, findVars>>

Next ==
    \/ LoadEnvironment
    \/ ReadCsv
    \/ LoadGrowth
    \/ OpenXlsx
    \/ CheckLoaded
    \/ Sidebar
    \/ Tab1
    \/ Tab2
    \/ Tab3
    \/ Rerun
    \/ FsChange

Spec == Init /\ [][Next]_vars

-----------------------------------------------------------------------------
(* find_file applied to a directory listing and a target name *)

\* U+C1A1 written as the syllable U+C18C followed by the final jamo U+11BC
HalfComposed == <<49548, 4540>> \o Tail(SongdoCsvName)

Targets == {SongdoCsvName, NFD(SongdoCsvName), HalfComposed,
            Songdo \o CsvSuffix, NFD(Songdo \o CsvSuffix),
            <<97>> \o XlsxSuffix, <<122>> \o TxtSuffix}

FindInit ==
    /\ dirExists = TRUE
    /\ listing \in Listings
    /\ changes = 0
    /\ envCache = Unset
    /\ growthCache = Unset
    /\ envReads = 0
    /\ growthReads = 0
    /\ widget = AllSchools
    /\ target_name \in Targets
    /\ found = Unset
    /\ RunInit

FindFile ==
    /\ found = Unset
    /\ found' = find_file(listing, target_name)
    /\ UNCHANGED <<fsVars, cacheVars, pc, fresh, env_data, growth_data, widget,
                   selected_school, notice, fault, rendered, tabVars, target_name>>

FindNext == FindFile

SpecFind == FindInit /\ [][FindNext]_vars

-----------------------------------------------------------------------------
(* Helpers of the properties *)

\* the listing with every entry's name put through f
RenameNFC(l) == [i \in 1..Len(l) |-> [l[i] EXCEPT !.name = NFC(l[i].name)]]
RenameNFD(l) == [i \in 1..Len(l) |-> [l[i] EXCEPT !.name = NFD(l[i].name)]]

\* the place of a find_file result in the listing it was given, 0 for None
Position(l, r) ==
    IF r = None THEN 0
    ELSE CHOOSE i \in 1..Len(l) :
           l[i].name = r.entry.name /\ \A j \in 1..(i - 1) : l[j].name # r.entry.name

Matches(l, t) == {i \in 1..Len(l) : NFC(l[i].name) = NFC(t)}

\* every order in which the entries of a listing can be enumerated
Orders(l) ==
    {[i \in 1..Len(l) |-> l[p[i]]] :
       p \in {q \in [1..Len(l) -> 1..Len(l)] :
                \A a, b \in 1..Len(l) : q[a] = q[b] => a = b}}

\* a result of a loader as a relation from label to table
Pairs(v) == IF IsDict(v) THEN {v.items[i] : i \in 1..Len(v.items)} ELSE {}

CsvCount(l) == Cardinality({i \in 1..Len(l) : Suffix(l[i].name) = CsvSuffix})

Cold == Ran("env") /\ Ran("growth")
SawEmpty == fresh = {<<"env", Listed(<<>>)>>, <<"growth", Listed(<<>>)>>}

-----------------------------------------------------------------------------
(* Properties *)

\* C1: find_file returns the same entry for the composed and the decomposed
\* form of the target, and for entries whose names are stored composed or
\* decomposed; the entry is the first one whose NFC name equals the NFC
\* target, and the result is None exactly when there is no such entry.
C1_FindFileNormalizes ==
    found # Unset =>
      /\ found = find_file(listing, NFC(target_name))
      /\ found = find_file(listing, NFD(target_name))
      /\ (found = None <=> Matches(listing, target_name) = {})
      /\ found # None =>
           /\ Position(listing, found) \in Matches(listing, target_name)
           /\ \A j \in Matches(listing, target_name) : Position(listing, found) <= j
      /\ Position(RenameNFC(listing), find_file(RenameNFC(listing), target_name))
           = Position(listing, found)
      /\ Position(RenameNFD(listing), find_file(RenameNFD(listing), target_name))
           = Position(listing, found)

\* C1 witness: an entry was found whose stored name differs from the target
\* as written (the two are in different normalization forms).
C1_Witness ==
    /\ found # Unset
    /\ found # None
    /\ found.entry.name # target_name
    /\ target_name # NFC(target_name)

\* C2: a cold load_environment_data of a directory with N csv files gives N
\* entries, with pairwise distinct labels that are each in NFC form.
C2_OneNormalizedLabelPerCsv ==
    (pc = "load_growth" /\ Ran("env")) =>
      /\ Len(env_data.items) = CsvCount(Seen("env").entries)
      /\ \A i, j \in 1..Len(env_data.items) :
            env_data.items[i][1] = env_data.items[j][1] => i = j
      /\ \A i \in 1..Len(env_data.items) :
            NFC(env_data.items[i][1]) = env_data.items[i][1]

\* C3 as claimed: when both loaders list an existing, empty directory, both
\* return an empty mapping, nothing is raised, and the run ends at the error
\* notice.
C3_Original ==
    SawEmpty =>
      /\ env_data = Dict(<<>>)
      /\ growth_data = Dict(<<>>)
      /\ fault = NoFault
      /\ rendered = {}
      /\ pc \in {"check", "stopped"}
      /\ (pc = "stopped" => notice)

\* C3 as amended: when both loaders list an existing, empty directory
\* (nothing is cached), load_environment_data returns an empty mapping and
\* load_growth_data returns None; nothing is raised, no tab section is
\* rendered and the run ends at the error notice.
C3_EmptyDirectory ==
    SawEmpty =>
      /\ env_data = Dict(<<>>)
      /\ growth_data = None
      /\ fault = NoFault
      /\ rendered = {}
      /\ pc \in {"check", "stopped"}
      /\ (pc = "stopped" => notice)

\* C3 witness: a run on an empty directory has stopped at the notice.
C3_Witness ==
    /\ SawEmpty
    /\ pc = "stopped"
    /\ notice

\* C4: when a loader finds no directory, the load step ends in the error
\* notice with an empty result of that loader, not in an uncaught exception,
\* and no tab section is rendered.
C4_MissingDirectoryReported ==
    (\E p \in fresh : p[2] = Missing) =>
      /\ fault = NoFault
      /\ (<<"env", Missing>> \in fresh => env_data = Dict(<<>>))
      /\ (<<"growth", Missing>> \in fresh => growth_data \in {None, Dict(<<>>)})
      /\ rendered = {}
      /\ pc \in {"load_growth", "open_xlsx", "check", "stopped"}
      /\ (pc = "stopped" => notice)

\* C5: no lookup of a group's treatment level raises; every group of the
\* environment mapping has a record of averages whose level is the
\* configured one, or null for a group EC_INFO does not know; every group of
\* the growth mapping has a record in the weight table.
EcLookupLines == {146, 198, 233}

C5_EveryGroupAggregated ==
    /\ ~(fault.type = "KeyError" /\ fault.line \in EcLookupLines)
    /\ 2 \in rendered =>
         \A i \in 1..Len(env_data.items) :
            /\ tab2_out.avg_df[i].school = env_data.items[i][1]
            /\ tab2_out.avg_df[i].target_ec = EcGet(env_data.items[i][1])
    /\ 3 \in rendered =>
         \A i \in 1..Len(growth_data.items) :
            tab3_out.weight_df[i].school = growth_data.items[i][1]

\* C6: each loader reads the file system at most once in the life of the
\* process, and a value it returned is the stored one.
C6_ReadAtMostOnce ==
    /\ envReads <= 1
    /\ growthReads <= 1
    /\ (env_data # Unset => env_data = envCache)
    /\ (growth_data # Unset => growth_data = growthCache)

\* C7: what a cold load returns (the labels, and the table of each label)
\* is the same for every order in which the directory is enumerated.
C7_OrderIndependent ==
    (pc = "check" /\ Cold) =>
      /\ \A l \in Orders(Seen("env").entries) :
            Pairs(load_environment_data(l)) = Pairs(env_data)
      /\ \A l \in Orders(Seen("growth").entries) :
            /\ load_growth_data(l).kind = growth_data.kind
            /\ Pairs(load_growth_data(l)) = Pairs(growth_data)

\* C8: a run that got past the check of the load results has a non-empty
\* environment mapping and a growth mapping with at least one group.
RequiredEmpty(env, growth) ==
    \/ env.items = <<>>
    \/ growth = None
    \/ (IsDict(growth) /\ growth.items = <<>>)

C8_EmptyResultStops ==
    (env_data # Unset /\ growth_data # Unset /\ pc # "check"
       /\ RequiredEmpty(env_data, growth_data)) =>
      (pc = "stopped" /\ notice /\ rendered = {} /\ fault = NoFault)

\* C9: a mean over no value is never among the means the best group is
\* selected from, and is never displayed as a metric.
C9_UndefinedMeanUnused ==
    /\ 1 \in rendered =>
         /\ \A i \in 1..Len(tab1_out.mean_weights) : ~tab1_out.mean_weights[i][2].nan
         /\ ~tab1_out.avg_temp.nan
         /\ ~tab1_out.avg_hum.nan
    /\ 3 \in rendered =>
         /\ \A i \in 1..Len(tab3_out.weight_df) : ~tab3_out.weight_df[i].mean_weight.nan
         /\ ~tab3_out.best_row.mean_weight.nan

\* C10: a run that ended with an exception raised in the tab 1 section has
\* rendered the tab 2 and tab 3 sections, and one that ended with an
\* exception raised in the tab 2 section has rendered the tab 3 section.
C10_FaultIsolatedPerTab ==
    pc = "fault" =>
      /\ (fault.line >= 119 /\ fault.line <= 152) => {2, 3} \subseteq rendered
      /\ (fault.line >= 157 /\ fault.line <= 222) => 3 \in rendered

====
